---- MODULE Spec2Model ----
(***************************************************************************)
(* A model of json_segments (json_segments.c / json_segments.h): the       *)
(* global array of reassembly sessions, the admission of fragments, the    *)
(* merge, the eviction and the timeout sweep.                              *)
(*                                                                         *)
(* C strings are sequences of one-character strings.  The C array          *)
(* segments[0..] of a session is the sequence segments[1..]: slot j of the *)
(* code is index j+1 here.  A session's buffer is malloc'ed for            *)
(* total_segments slots; a slot with index > total_segments lies outside   *)
(* that buffer.                                                            *)
(***************************************************************************)
EXTENDS Integers, Sequences, FiniteSets, TLC

\* ------------------------------------------------------------------ bounds

\* Largest "abs" (total number of segments) a caller passes.
MaxTotal == 2
\* Largest "seq" (sequence number) a caller passes.
MaxSeq == 2
\* Largest value time(NULL) reaches.
MaxTime == 1
\* Most fragments a session takes past its total_segments (the code has no cap).
MaxOverrun == 1
\* Longest string given to json_segments_split_string.
MaxMsgLen == 3
\* Largest max_length - overhead given to json_segments_split_string.
MaxSegLength == 2

\* ------------------------------------------------------------------ inputs

Uids == {<<"a">>}
Seqs == 0..MaxSeq
Totals == 0..MaxTotal
\* "1" is a JSON digit, "x" is a character no JSON value starts with.
Payloads == {<<"1">>, <<"x">>}
Timeouts == 0..MaxTime

NULL == "NULL"
process_json == "process_json"
\* The calls of the callback and of cJSON_Parse a call made: none, or one
\* with its argument.
NoCall == <<>>
NoBuffer == <<>>
\* The NULL that cJSON_Parse returns for a string that is no JSON.
NoJson == [type |-> "NULL", valueint |-> 0]

VARIABLES
    all_json_segments,                 \* the entries all_json_segments[0..count-1]
    all_json_segments_ptr,             \* the pointer itself: NULL, valid or freed
    current_json_processing_function,  \* NULL or the registered callback
    now,                               \* time(NULL)
    crashed,                           \* the process died of undefined behaviour
    stderr,                            \* what the last call printed to stderr
    parsed,                            \* the buffer the last call gave cJSON_Parse
    callback_arg,                      \* the cJSON the last call gave the callback
    last_call,                         \* the last call made and its arguments
    split_str, split_uid, split_max_length,  \* json_segments_split_string's arguments
    split_result,                      \* what json_segments_split_string returned
    fed                                \* the returned segments given to json_segments_add

storeVars == <<all_json_segments, all_json_segments_ptr, current_json_processing_function,
               now, crashed, stderr, parsed, callback_arg, last_call>>
splitVars == <<split_str, split_uid, split_max_length, split_result, fed>>
vars == <<storeVars, splitVars>>

all_json_segments_count == Len(all_json_segments)

\* ----------------------------------------------------------- struct types

JsonSegment(sequence_number, json_segment) ==
    [sequence_number |-> sequence_number, json_segment |-> json_segment]

JsonSegmentInfo(unique_id, received_segments, total_segments, segments, timestamp) ==
    [unique_id |-> unique_id,
     received_segments |-> received_segments,
     total_segments |-> total_segments,
     segments |-> segments,
     last_received_timestamp |-> timestamp]

\* ---------------------------------------------------------------- helpers

\* The index of the first entry whose unique_id is uid (strcmp == 0), 0 if none:
\* the "for (i ...) if (strcmp(...) == 0)" loops.
FindSession(store, uid) ==
    LET hits == {i \in 1..Len(store) : store[i].unique_id = uid}
    IN IF hits = {} THEN 0 ELSE CHOOSE i \in hits : \A k \in hits : i <= k

\* The consistency check of json_segments_add.
InconsistentTotal_Never(info, total_segments) == FALSE

InconsistentTotal(info, total_segments) == info.total_segments # total_segments

\* The duplicate check that starts at segments[1].
SequenceNumberExists_FromSecond(info, sequence_number) ==
    \E j \in 2..info.received_segments :
        info.segments[j].sequence_number = sequence_number

\* The duplicate check of json_segments_add: the loop over segments[0..received-1].
SequenceNumberExists(info, sequence_number) ==
    \E j \in 1..info.received_segments :
        info.segments[j].sequence_number = sequence_number

\* The result of a call (or of a part of one): the store after it, what it
\* printed, what it parsed, what it gave the callback, and whether it crashed.
Result(store, ptr, crash, err, buf, arg) ==
    [store |-> store, ptr |-> ptr, crashed |-> crash,
     stderr |-> err, parsed |-> buf, callback_arg |-> arg]

\* ------------------------------------------------------------- cJSON_Parse

IsDigit(c) == c = "1"

RECURSIVE LeadingDigits(_)
LeadingDigits(str) ==
    IF str = <<>> \/ ~IsDigit(Head(str)) THEN <<>>
    ELSE <<Head(str)>> \o LeadingDigits(Tail(str))

RECURSIVE DecimalValue(_)
DecimalValue(digits) ==
    IF digits = <<>> THEN 0
    ELSE 10 * DecimalValue(SubSeq(digits, 1, Len(digits) - 1)) + 1

\* cJSON_Parse on this alphabet: a number is the longest run of digits at the
\* start (text after the value is ignored: cJSON_Parse does not require the
\* value to end the string); a string that starts with no digit is no JSON.
cJSON_Parse(str) ==
    IF LeadingDigits(str) = <<>> THEN NoJson
    ELSE [type |-> "cJSON_Number", valueint |-> DecimalValue(LeadingDigits(str))]

\* -------------------------------------------------- json_segments_split_string

Quote == "\""
Backslash == "\\"
\* The characters of the strings split: a JSON digit, a character no JSON
\* value starts with.
MsgChars == {"1", "x"}

\* sprintf("%d") of a number >= 0, as cJSON prints an integer.
RECURSIVE PrintNumber(_)
PrintNumber(n) ==
    LET digit == <<"0", "1", "2", "3", "4", "5", "6", "7", "8", "9">>[(n % 10) + 1]
    IN IF n < 10 THEN <<digit>> ELSE PrintNumber(n \div 10) \o <<digit>>

\* cJSON's printing of a string: in quotes, a quote or a backslash escaped.
RECURSIVE Escaped(_)
Escaped(chars) ==
    IF chars = <<>> THEN <<>>
    ELSE (IF Head(chars) \in {Quote, Backslash} THEN <<Backslash, Head(chars)>>
          ELSE <<Head(chars)>>) \o Escaped(Tail(chars))

PrintString(chars) == <<Quote>> \o Escaped(chars) \o <<Quote>>

\* json_segments_create_single: the object {"uid":..,"seq":..,"abs":..,"seg":..}.
json_segments_create_single(u, sequence_number, total_segments, content) ==
    [uid |-> u, seq |-> sequence_number, abs |-> total_segments, seg |-> content]

\* cJSON_PrintUnformatted of such an object.
cJSON_PrintUnformatted(obj) ==
    <<"{">> \o PrintString(<<"u", "i", "d">>) \o <<":">> \o PrintString(obj.uid)
    \o <<",">> \o PrintString(<<"s", "e", "q">>) \o <<":">> \o PrintNumber(obj.seq)
    \o <<",">> \o PrintString(<<"a", "b", "s">>) \o <<":">> \o PrintNumber(obj.abs)
    \o <<",">> \o PrintString(<<"s", "e", "g">>) \o <<":">> \o PrintString(obj.seg)
    \o <<"}">>

json_segments_overhead_size(u, seq, abs) ==
    Len(cJSON_PrintUnformatted(json_segments_create_single(u, seq, abs, <<>>))) - 2

\* strndup(str, end_idx - start_idx): every slice taken from the start.
Strndup_FromStart(chars, start_idx, end_idx) == SubSeq(chars, 1, end_idx - start_idx)

\* strndup(str + start_idx, end_idx - start_idx).
Strndup(chars, start_idx, end_idx) == SubSeq(chars, start_idx + 1, end_idx)

\* json_segments_split_string(str, uid, max_length): the set of its outcomes,
\* NULL or the array of segments.  malloc(0), for an empty string, returns
\* NULL or a block of no use: the array of no segments.
json_segments_split_string(chars, u, max_len) ==
    LET total_length == Len(chars)
        overhead == json_segments_overhead_size(u, 0, 0)
        max_seg_length == max_len - overhead
        total_segments == (total_length + max_seg_length - 1) \div max_seg_length
        segment(i) ==
            LET start_idx == i * max_seg_length
                end_idx == IF start_idx + max_seg_length > total_length
                           THEN total_length ELSE start_idx + max_seg_length
            IN json_segments_create_single(u, i + 1, total_segments,
                                           Strndup(chars, start_idx, end_idx))
        array == [returned |-> "array",
                  segments |-> [k \in 1..total_segments |-> segment(k - 1)]]
        null == [returned |-> "NULL", segments |-> <<>>]
    IN IF max_len <= 0 THEN {null}
       ELSE IF max_seg_length <= 0 THEN {null}
       ELSE IF total_segments = 0 THEN {null, array}
       ELSE {array}

\* ------------------------------------------------- json_segments_delete_segments

\* The entries after "move the remaining elements to avoid gaps".
RemoveAt(store, i) ==
    [j \in 1..(Len(store) - 1) |-> IF j < i THEN store[j] ELSE store[j + 1]]

\* json_segments_delete_segments(unique_id) on a store: the set of its outcomes.
\*  - an entry with received_segments > total_segments has json_segment
\*    pointers outside its buffer; free() of them is undefined: it goes
\*    through or the process dies;
\*  - realloc(all_json_segments, 0), when the last entry goes, either returns a
\*    block (the pointer stays valid) or frees the array and returns NULL: the
\*    code then prints "Memory allocation error!" and keeps the freed pointer.
DeleteOutcomes(store, ptr, unique_id, err, buf, arg) ==
    LET i == FindSession(store, unique_id) IN
    IF i = 0 THEN {Result(store, ptr, FALSE, err, buf, arg)}
    ELSE
        LET rest == RemoveAt(store, i)
            done == IF Len(rest) > 0
                    THEN {Result(rest, ptr, FALSE, err, buf, arg)}
                    ELSE {Result(rest, "valid", FALSE, err, buf, arg),
                          Result(rest, "freed", FALSE,
                                 Append(err, "Memory allocation error!"), buf, arg)}
        IN IF store[i].received_segments > store[i].total_segments
           THEN done \cup {Result(store, ptr, TRUE, err, buf, arg)}
           ELSE done

\* --------------------------------------------------------- json_segments_merge

\* The inner loop that moves the smaller elements up.
RECURSIVE InsertKey_Descending(_, _, _)
InsertKey_Descending(segs, k, key) ==
    IF k >= 0 /\ segs[k + 1].sequence_number < key.sequence_number
    THEN InsertKey_Descending([segs EXCEPT ![k + 2] = segs[k + 1]], k - 1, key)
    ELSE [segs EXCEPT ![k + 2] = key]

\* The inner while loop of the insertion sort: key goes in at k + 1 once the
\* elements of segs[0..k] greater than key moved one slot up (k is 0-based).
RECURSIVE InsertKey(_, _, _)
InsertKey(segs, k, key) ==
    IF k >= 0 /\ segs[k + 1].sequence_number > key.sequence_number
    THEN InsertKey([segs EXCEPT ![k + 2] = segs[k + 1]], k - 1, key)
    ELSE [segs EXCEPT ![k + 2] = key]

\* The outer loop, from j (0-based) to total_segments - 1.
RECURSIVE InsertionSort(_, _, _)
InsertionSort(segs, j, total_segments) ==
    IF j < total_segments
    THEN InsertionSort(InsertKey(segs, j - 1, segs[j + 1]), j + 1, total_segments)
    ELSE segs

\* strcpy of segments[0], then strcat of segments[1..total_segments-1].
RECURSIVE Strcat(_, _, _)
Strcat(segs, j, total_segments) ==
    IF j < total_segments
    THEN segs[j + 1].json_segment \o Strcat(segs, j + 1, total_segments)
    ELSE <<>>

\* json_segments_process_merged(json): the callback's argument and the message.
ProcessMerged(json, fn) ==
    IF fn # NULL THEN [arg |-> <<json>>, err |-> <<>>]
    ELSE [arg |-> NoCall, err |-> <<"Keine Verarbeitungsfunktion gesetzt">>]

\* "Not all segments received" taken as: fewer than total_segments.
Incomplete_FewerOnly(info) == info.received_segments < info.total_segments

\* The check "if all segments have been received" of lines 267-269, negated.
Incomplete(info) == info.received_segments # info.total_segments

\* json_segments_merge(unique_id) on a store: the set of its outcomes.
MergeOutcomes(store, ptr, unique_id, fn) ==
    LET i == FindSession(store, unique_id) IN
    IF i = 0 THEN {Result(store, ptr, FALSE, <<>>, NoBuffer, NoCall)}
    ELSE IF Incomplete(store[i])
    THEN {Result(store, ptr, FALSE, <<>>, NoBuffer, NoCall)}
    ELSE
        LET total == store[i].total_segments
            sorted == InsertionSort(store[i].segments, 1, total)
            sortedStore == [store EXCEPT ![i].segments = sorted]
            full_json_str == Strcat(sorted, 0, total)
            json == cJSON_Parse(full_json_str)
        IN IF json = NoJson
           THEN {Result(sortedStore, ptr, FALSE,
                        <<"Fehler beim Parsen von JSON">>, <<full_json_str>>, NoCall)}
           ELSE LET pm == ProcessMerged(json, fn)
                IN DeleteOutcomes(sortedStore, ptr, unique_id,
                                  pm.err, <<full_json_str>>, pm.arg)

\* ----------------------------------------------------------- json_segments_add

\* The values a slot outside the session's buffer may hold in its
\* sequence_number once written: the write is undefined behaviour, the slot
\* is memory the session does not own.  It holds what was written, or what
\* the owner of that memory puts there: any value.
OutOfBoundsValues(sequence_number) == Seqs

\* The json_segment pointer of a slot outside the buffer: nothing reads it
\* back but free(), and what it points to is not the session's to keep.
NotOwned == <<>>

\* The branch for an entry that exists (lines 26-53).
AddToExisting(store, ptr, i, sequence_number, total_segments, json_segment, t, fn) ==
    LET info == store[i] IN
    IF InconsistentTotal(info, total_segments)
    THEN {Result(store, ptr, FALSE,
                 <<"Error: Inconsistent total number of segments">>, NoBuffer, NoCall)}
    ELSE IF SequenceNumberExists(info, sequence_number)
    THEN {Result(store, ptr, FALSE, <<>>, NoBuffer, NoCall)}
    ELSE
        LET index == info.received_segments
            put(v, chars) == [store EXCEPT
                         ![i].segments = Append(info.segments, JsonSegment(v, chars)),
                         ![i].received_segments = index + 1,
                         ![i].last_received_timestamp = t]
        IN IF index >= info.total_segments
           THEN \* segments[index] lies outside the buffer of total_segments slots
                {Result(put(v, NotOwned), ptr, FALSE, <<>>, NoBuffer, NoCall) :
                     v \in OutOfBoundsValues(sequence_number)}
                \cup {Result(store, ptr, TRUE, <<>>, NoBuffer, NoCall)}
           ELSE IF index + 1 = info.total_segments
           THEN MergeOutcomes(put(sequence_number, json_segment), ptr,
                              info.unique_id, fn)
           ELSE {Result(put(sequence_number, json_segment), ptr, FALSE,
                        <<>>, NoBuffer, NoCall)}

\* The branch that creates an entry (lines 56-75).  realloc of a freed
\* pointer is undefined: it goes through or the process dies.  The buffer is
\* malloc(sizeof(JsonSegment) * total_segments): with total_segments = 0
\* segments[0] lies outside it.
AddNew(store, ptr, unique_id, sequence_number, total_segments, json_segment, t) ==
    LET entry(v, chars) == JsonSegmentInfo(unique_id, 1, total_segments,
                                           <<JsonSegment(v, chars)>>, t)
        made == IF total_segments >= 1
                THEN {Result(Append(store, entry(sequence_number, json_segment)),
                             "valid", FALSE, <<>>, NoBuffer, NoCall)}
                ELSE {Result(Append(store, entry(v, NotOwned)), "valid", FALSE,
                             <<>>, NoBuffer, NoCall) :
                          v \in OutOfBoundsValues(sequence_number)}
                     \cup {Result(store, ptr, TRUE, <<>>, NoBuffer, NoCall)}
    IN IF ptr = "freed"
       THEN made \cup {Result(store, ptr, TRUE, <<>>, NoBuffer, NoCall)}
       ELSE made

\* json_segments_add(unique_id, sequence_number, total_segments, json_segment)
\* on a store at time t: the set of its outcomes.
AddOutcomes(store, ptr, unique_id, sequence_number, total_segments, json_segment, t, fn) ==
    LET i == FindSession(store, unique_id) IN
    IF i # 0
    THEN AddToExisting(store, ptr, i, sequence_number, total_segments, json_segment, t, fn)
    ELSE AddNew(store, ptr, unique_id, sequence_number, total_segments, json_segment, t)

\* -------------------------------------------------- json_segments_parse_input

\* The items of a cJSON object: a string, a number, or no item (what
\* cJSON_GetObjectItem returns for a name the object does not have).
StringItem(chars) == [type |-> "cJSON_String", valuestring |-> chars, valueint |-> 0]
NumberItem(n) == [type |-> "cJSON_Number", valuestring |-> <<>>, valueint |-> n]
NoItem == [type |-> "NULL", valuestring |-> <<>>, valueint |-> 0]

cJSON_IsString(item) == item.type = "cJSON_String"
cJSON_IsNumber(item) == item.type = "cJSON_Number"

\* The argument of json_segments_parse_input: a cJSON with its items "uid",
\* "seq", "abs" and "seg", or the NULL pointer.
Object(uid, seq, abs, seg) ==
    [type |-> "cJSON_Object", uid |-> uid, seq |-> seq, abs |-> abs, seg |-> seg]
NullObject == [type |-> "NULL", uid |-> NoItem, seq |-> NoItem, abs |-> NoItem, seg |-> NoItem]

\* The check of line 93 with the seg item left out.
InvalidData_SegUnchecked(json_obj) ==
    \/ ~cJSON_IsString(json_obj.uid)
    \/ ~cJSON_IsNumber(json_obj.seq)
    \/ ~cJSON_IsNumber(json_obj.abs)

\* The check of line 93.
InvalidData(json_obj) ==
    \/ ~cJSON_IsString(json_obj.uid)
    \/ ~cJSON_IsNumber(json_obj.seq)
    \/ ~cJSON_IsNumber(json_obj.abs)
    \/ ~cJSON_IsString(json_obj.seg)

\* json_segments_parse_input(json_obj) on a store at time t: the set of its
\* outcomes (the umlauts of the messages are written ue and ae).
ParseInputOutcomes(store, ptr, json_obj, t, fn) ==
    IF json_obj.type = "NULL"
    THEN {Result(store, ptr, FALSE, <<"Ungueltiges cJSON-Objekt">>, NoBuffer, NoCall)}
    ELSE IF InvalidData(json_obj)
    THEN {Result(store, ptr, FALSE, <<"JSON-Objekt enthaelt ungueltige Daten">>,
                 NoBuffer, NoCall)}
    ELSE AddOutcomes(store, ptr, json_obj.uid.valuestring, json_obj.seq.valueint,
                     json_obj.abs.valueint, json_obj.seg.valuestring, t, fn)

\* ------------------------------------------------- json_segments_check_timeout

\* difftime with its arguments the other way round.
TimedOut_Reversed(info, current_time, timeout) ==
    info.last_received_timestamp - current_time > timeout

\* The test of lines 240-241: difftime(current_time, last_received_timestamp)
\* is greater than timeout.
TimedOut(info, current_time, timeout) ==
    current_time - info.last_received_timestamp > timeout

\* An expired entry is merged, whatever it holds, before it is deleted.
SweepEntry_MergedFirst(store, ptr, unique_id, err) ==
    UNION {DeleteOutcomes(m.store, m.ptr, unique_id, err, m.parsed, m.callback_arg) :
               m \in MergeOutcomes(store, ptr, unique_id, process_json)}

\* What the loop does with an expired entry (line 242): it is deleted by its
\* unique_id; nothing is parsed, no callback called.
SweepEntry(store, ptr, unique_id, err) ==
    DeleteOutcomes(store, ptr, unique_id, err, NoBuffer, NoCall)

\* The outcome q of the rest of the loop, with what the step r before it
\* parsed and delivered if the rest did neither.
After(r, q) ==
    [q EXCEPT !.parsed = IF q.parsed = NoBuffer THEN r.parsed ELSE q.parsed,
              !.callback_arg = IF q.callback_arg = NoCall THEN r.callback_arg
                               ELSE q.callback_arg]

\* The loop of json_segments_check_timeout from index i (0-based): an entry
\* whose difftime(current_time, last_received_timestamp) > timeout is deleted
\* by its unique_id and the same index is looked at again.
RECURSIVE TimeoutOutcomes(_, _, _, _, _, _)
TimeoutOutcomes(store, ptr, i, current_time, timeout, err) ==
    IF i >= Len(store) THEN {Result(store, ptr, FALSE, err, NoBuffer, NoCall)}
    ELSE IF TimedOut(store[i + 1], current_time, timeout)
    THEN UNION {IF r.crashed THEN {r}
                ELSE {After(r, q) :
                          q \in TimeoutOutcomes(r.store, r.ptr, i, current_time,
                                                timeout, r.stderr)} :
                    r \in SweepEntry(store, ptr, store[i + 1].unique_id, err)}
    ELSE TimeoutOutcomes(store, ptr, i + 1, current_time, timeout, err)

\* ---------------------------------------------------------------- actions

\* A call, with the unique_id and the sequence_number it was given.
Call(op, unique_id, sequence_number) ==
    [op |-> op, unique_id |-> unique_id, sequence_number |-> sequence_number]

NotCalled == [returned |-> "not called", segments |-> <<>>]

Init ==
    /\ all_json_segments = <<>>
    /\ all_json_segments_ptr = NULL
    /\ current_json_processing_function = NULL
    /\ now = 0
    /\ crashed = FALSE
    /\ stderr = <<>>
    /\ parsed = NoBuffer
    /\ callback_arg = NoCall
    /\ last_call = Call("none", <<>>, 0)
    /\ split_str = <<>>
    /\ split_uid = <<>>
    /\ split_max_length = 0
    /\ split_result = NotCalled
    /\ fed = {}

\* The state after a call with outcome r.  A call that crashes the process
\* leaves nothing behind: no store, no output.
Returns(r, op, unique_id, sequence_number) ==
    IF r.crashed
    THEN /\ crashed' = TRUE
         /\ all_json_segments' = <<>>
         /\ all_json_segments_ptr' = NULL
         /\ stderr' = <<>>
         /\ parsed' = NoBuffer
         /\ callback_arg' = NoCall
         /\ last_call' = Call("none", <<>>, 0)
         /\ current_json_processing_function' = NULL
         /\ now' = 0
    ELSE /\ all_json_segments' = r.store
         /\ all_json_segments_ptr' = r.ptr
         /\ crashed' = FALSE
         /\ stderr' = r.stderr
         /\ parsed' = r.parsed
         /\ callback_arg' = r.callback_arg
         /\ last_call' = Call(op, unique_id, sequence_number)
         /\ UNCHANGED <<current_json_processing_function, now>>

json_segments_add(unique_id, sequence_number, total_segments, json_segment) ==
    /\ ~crashed
    /\ LET i == FindSession(all_json_segments, unique_id)
       IN i # 0 => all_json_segments[i].received_segments
                       < all_json_segments[i].total_segments + MaxOverrun
                   \/ all_json_segments[i].total_segments # total_segments
    /\ \E r \in AddOutcomes(all_json_segments, all_json_segments_ptr, unique_id,
                            sequence_number, total_segments, json_segment, now,
                            current_json_processing_function) :
           Returns(r, "add", unique_id, sequence_number)

json_segments_merge(unique_id) ==
    /\ ~crashed
    /\ \E r \in MergeOutcomes(all_json_segments, all_json_segments_ptr, unique_id,
                              current_json_processing_function) :
           Returns(r, "merge", unique_id, 0)

json_segments_delete_segments(unique_id) ==
    /\ ~crashed
    /\ \E r \in DeleteOutcomes(all_json_segments, all_json_segments_ptr, unique_id,
                               <<>>, NoBuffer, NoCall) :
           Returns(r, "delete", unique_id, 0)

json_segments_check_timeout(timeout) ==
    /\ ~crashed
    /\ \E r \in TimeoutOutcomes(all_json_segments, all_json_segments_ptr, 0, now,
                                timeout, <<>>) :
           Returns(r, "check_timeout", <<>>, 0)

\* "current_json_processing_function = process_json;" in the user's main.
SetProcessingFunction ==
    /\ ~crashed
    /\ current_json_processing_function = NULL
    /\ current_json_processing_function' = process_json
    /\ UNCHANGED <<all_json_segments, all_json_segments_ptr, now, crashed,
                   stderr, parsed, callback_arg, last_call, splitVars>>

\* The clock goes on.
Tick ==
    /\ ~crashed
    /\ now < MaxTime
    /\ now' = now + 1
    /\ UNCHANGED <<all_json_segments, all_json_segments_ptr,
                   current_json_processing_function, crashed,
                   stderr, parsed, callback_arg, last_call, splitVars>>

\* The calls a user of the library makes, in any order.
CallAdd ==
    \E u \in Uids, s \in Seqs, t \in Totals, p \in Payloads :
        json_segments_add(u, s, t, p) /\ UNCHANGED splitVars

CallMerge == \E u \in Uids : json_segments_merge(u) /\ UNCHANGED splitVars

CallDelete == \E u \in Uids : json_segments_delete_segments(u) /\ UNCHANGED splitVars

CallCheckTimeout ==
    \E timeout \in Timeouts : json_segments_check_timeout(timeout) /\ UNCHANGED splitVars

Next ==
    \/ CallAdd
    \/ CallMerge
    \/ CallDelete
    \/ CallCheckTimeout
    \/ SetProcessingFunction
    \/ Tick

Spec == Init /\ [][Next]_vars

\* ------------------------------------------- a sender and a receiver (round trip)

\* A string is split once and the segments returned are given to
\* json_segments_add, each once, in any order.
Messages == UNION {[1..n -> MsgChars] : n \in 0..MaxMsgLen}

MaxLengths ==
    {0} \cup {json_segments_overhead_size(u, 0, 0) + d : u \in Uids, d \in (-1)..MaxSegLength}

InitSplit ==
    /\ all_json_segments = <<>>
    /\ all_json_segments_ptr = NULL
    /\ current_json_processing_function = process_json
    /\ now = 0
    /\ crashed = FALSE
    /\ stderr = <<>>
    /\ parsed = NoBuffer
    /\ callback_arg = NoCall
    /\ last_call = Call("none", <<>>, 0)
    /\ split_str \in Messages
    /\ split_uid \in Uids
    /\ split_max_length \in MaxLengths
    /\ split_result = NotCalled
    /\ fed = {}

CallSplitString ==
    /\ split_result = NotCalled
    /\ split_result' \in json_segments_split_string(split_str, split_uid, split_max_length)
    /\ UNCHANGED <<storeVars, split_str, split_uid, split_max_length, fed>>

\* One segment of the array returned goes to json_segments_add (what
\* json_segments_parse_input does with a segment on the receiving side).
Feed(k) ==
    /\ k \in (1..Len(split_result.segments)) \ fed
    /\ LET seg == split_result.segments[k]
       IN json_segments_add(seg.uid, seg.seq, seg.abs, seg.seg)
    /\ fed' = fed \cup {k}
    /\ UNCHANGED <<split_str, split_uid, split_max_length, split_result>>

FeedAny == \E k \in 1..MaxMsgLen : Feed(k)

NextSplit ==
    \/ CallSplitString
    \/ FeedAny

SpecSplit == InitSplit /\ [][NextSplit]_vars

\* ------------------------------------------------ what comes in from the wire

\* The objects a receiver hands to json_segments_parse_input: the segments
\* of well-typed items, a segment with one item missing or of the other
\* type, an object with none of the items, the NULL pointer.
Segments ==
    {Object(StringItem(u), NumberItem(s), NumberItem(t), StringItem(p)) :
         u \in Uids, s \in Seqs, t \in Totals, p \in Payloads}

Malformed ==
    LET u == StringItem(<<"a">>)
        n == NumberItem(1)
        p == StringItem(<<"1">>)
    IN {Object(NoItem, n, n, p), Object(n, n, n, p),
        Object(u, NoItem, n, p), Object(u, p, n, p),
        Object(u, n, NoItem, p), Object(u, n, p, p),
        Object(u, n, n, NoItem), Object(u, n, n, n),
        Object(NoItem, NoItem, NoItem, NoItem), NullObject}

\* json_segments_parse_input(json_obj): it prints and returns, or it is the
\* call of json_segments_add of line 98.
json_segments_parse_input(json_obj) ==
    IF json_obj.type = "NULL" \/ InvalidData(json_obj)
    THEN /\ ~crashed
         /\ \E r \in ParseInputOutcomes(all_json_segments, all_json_segments_ptr,
                                         json_obj, now,
                                         current_json_processing_function) :
                Returns(r, "parse_input", <<>>, 0)
    ELSE json_segments_add(json_obj.uid.valuestring, json_obj.seq.valueint,
                           json_obj.abs.valueint, json_obj.seg.valuestring)

CallParseInput ==
    \E json_obj \in Segments \cup Malformed :
        json_segments_parse_input(json_obj) /\ UNCHANGED splitVars

NextInput ==
    \/ CallParseInput
    \/ CallCheckTimeout
    \/ SetProcessingFunction
    \/ Tick

SpecInput == Init /\ [][NextInput]_vars

\* ------------------------------------------------ several sessions in the store

\* Fragments of three messages come in, interleaved in any order, while the
\* clock goes on and the store is swept.  Every message has three fragments,
\* of which the first two come in: no session gets complete, none is written
\* past its buffer.
SessionIds == {<<"a">>, <<"b">>, <<"c">>}
SessionSeqs == {1, 2}
SessionTotals == {3}

InitStore ==
    /\ all_json_segments = <<>>
    /\ all_json_segments_ptr = NULL
    /\ current_json_processing_function = process_json
    /\ now = 0
    /\ crashed = FALSE
    /\ stderr = <<>>
    /\ parsed = NoBuffer
    /\ callback_arg = NoCall
    /\ last_call = Call("none", <<>>, 0)
    /\ split_str = <<>>
    /\ split_uid = <<>>
    /\ split_max_length = 0
    /\ split_result = NotCalled
    /\ fed = {}

StoreAdd ==
    \E u \in SessionIds, s \in SessionSeqs, t \in SessionTotals :
        json_segments_add(u, s, t, <<"1">>) /\ UNCHANGED splitVars

NextStore ==
    \/ StoreAdd
    \/ CallCheckTimeout
    \/ Tick

SpecStore == InitStore /\ [][NextStore]_vars

\* ------------------------------------------------ two messages, every call

\* The fragments of two messages of one or two fragments come in, in any
\* order and again, while json_segments_merge and
\* json_segments_delete_segments are called for either id and the clock goes
\* on.  Every payload is a JSON digit.
PairIds == {<<"a">>, <<"b">>}
PairSeqs == {1, 2}
PairTotals == {1, 2}

PairAdd ==
    \E u \in PairIds, s \in PairSeqs, t \in PairTotals :
        json_segments_add(u, s, t, <<"1">>) /\ UNCHANGED splitVars

PairMerge == \E u \in PairIds : json_segments_merge(u) /\ UNCHANGED splitVars

PairDelete ==
    \E u \in PairIds : json_segments_delete_segments(u) /\ UNCHANGED splitVars

NextPair ==
    \/ PairAdd
    \/ PairMerge
    \/ PairDelete
    \/ Tick

SpecPair == InitStore /\ [][NextPair]_vars

\* ----------------------------------------------- time goes on, the store is swept

\* Fragments come in until the clock reaches MaxTime and none after; the
\* clock goes on and json_segments_check_timeout keeps being called with a
\* timeout shorter than the time that is left.
AddBeforeEnd ==
    /\ now < MaxTime
    /\ CallAdd

Sweep == json_segments_check_timeout(0) /\ UNCHANGED splitVars

NextLive ==
    \/ AddBeforeEnd
    \/ CallMerge
    \/ CallDelete
    \/ CallCheckTimeout
    \/ SetProcessingFunction
    \/ Tick

SpecLive == Init /\ [][NextLive]_vars /\ WF_vars(Tick) /\ WF_vars(Sweep)

\* ---------------------------------------------------------------- properties

\* The index of uid's entry in the array, 0 if it has none.
SessionIndex(unique_id) == FindSession(all_json_segments, unique_id)

\* The fragments an entry holds: segments[0..received_segments-1].
Fragments(info) == {info.segments[j] : j \in 1..info.received_segments}

\* The payloads of a set of fragments, one after the other, the fragment of
\* the smallest sequence number first.
RECURSIVE AscendingConcat(_)
AscendingConcat(frags) ==
    IF frags = {} THEN <<>>
    ELSE LET first == CHOOSE f \in frags :
                          \A g \in frags : f.sequence_number <= g.sequence_number
         IN first.json_segment \o AscendingConcat(frags \ {first})

\* C1: round trip.  Once every segment that json_segments_split_string
\* returned for a message (a string cJSON_Parse accepts), with a max_length
\* that leaves room for at least one payload byte, went through
\* json_segments_add, in whatever order, the callback has been called with
\* the parse of that message.
C1_RoundTrip ==
    (/\ split_result.returned = "array"
     /\ split_max_length - json_segments_overhead_size(split_uid, 0, 0) >= 1
     /\ cJSON_Parse(split_str) # NoJson
     /\ fed = 1..Len(split_result.segments))
    => callback_arg = <<cJSON_Parse(split_str)>>

\* C2: every session opened with a positive total holds at most
\* total_segments fragments (nothing is written past its buffer).
C2_ReceivedAtMostTotal ==
    \A i \in 1..Len(all_json_segments) :
        all_json_segments[i].total_segments >= 1
            => all_json_segments[i].received_segments
                   <= all_json_segments[i].total_segments

NoOverrunIn(store) ==
    \A i \in 1..Len(store) : store[i].received_segments <= store[i].total_segments

\* The outcomes of json_segments_add(u, s, t, p) now that do not crash.
FirstAdd(u, s, t, p) ==
    {r \in AddOutcomes(all_json_segments, all_json_segments_ptr, u, s, t, p, now,
                       current_json_processing_function) : ~r.crashed}

\* The outcomes of the same call made again, now or later, after outcome r.
SecondAdd(r, u, s, t, p) ==
    UNION {AddOutcomes(r.store, r.ptr, u, s, t, p, later,
                       current_json_processing_function) : later \in now..MaxTime}

\* C4, as claimed: json_segments_add called a second time with the same
\* fragment leaves the store as the first call left it and calls no callback,
\* from every state of the store.  Stated for well-formed fragments (seq >= 1,
\* total >= 1) and a first call that wrote nothing out of bounds.
C4_SecondAddChangesNothing ==
    \A u \in Uids, s \in Seqs \ {0}, t \in Totals \ {0}, p \in Payloads :
        \A r1 \in FirstAdd(u, s, t, p) :
            NoOverrunIn(r1.store) =>
                \A r2 \in SecondAdd(r1, u, s, t, p) :
                    ~r2.crashed =>
                        (r2.store = r1.store /\ r2.callback_arg = NoCall)

\* The first call left an entry for u that holds s or has another total than t.
HeldAfter(r, u, s, t) ==
    LET i == FindSession(r.store, u) IN
    /\ i # 0
    /\ \/ r.store[i].total_segments # t
       \/ \E j \in 1..r.store[i].received_segments :
              r.store[i].segments[j].sequence_number = s

\* C4, amended: json_segments_add called a second time with the same
\* fragment leaves the store as the first call left it (entries, totals,
\* fragments, counts, timestamps), calls no callback and merges nothing,
\* whenever the first call left an entry for the id that holds seq or has
\* another total.
C4_SecondAddChangesNothingWhileHeld ==
    \A u \in Uids, s \in Seqs, t \in Totals, p \in Payloads :
        \A r1 \in FirstAdd(u, s, t, p) :
            HeldAfter(r1, u, s, t) =>
                \A r2 \in SecondAdd(r1, u, s, t, p) :
                    /\ ~r2.crashed
                    /\ r2.store = r1.store
                    /\ r2.callback_arg = NoCall
                    /\ r2.parsed = NoBuffer

\* C4's case: a fragment was just added, time went on, and the entry still
\* holds it: the same call made now is the second one.
C4_Witness ==
    /\ last_call.op = "add" /\ ~crashed
    /\ SessionIndex(last_call.unique_id) # 0
    /\ LET info == all_json_segments[SessionIndex(last_call.unique_id)]
       IN /\ info.received_segments < info.total_segments
          /\ \E j \in 1..info.received_segments :
                 info.segments[j].sequence_number = last_call.sequence_number
          /\ info.last_received_timestamp < now

\* C5: json_segments_add for an id whose entry has another total has one
\* outcome: it returns with the array as it was (that entry's total, count,
\* fragments and timestamp), and has parsed and delivered nothing.
C5_InconsistentTotalChangesNothing ==
    \A u \in Uids :
        SessionIndex(u) # 0 =>
            \A t \in Totals \ {all_json_segments[SessionIndex(u)].total_segments},
               s \in Seqs, p \in Payloads :
                \A r \in AddOutcomes(all_json_segments, all_json_segments_ptr,
                                     u, s, t, p, now,
                                     current_json_processing_function) :
                    /\ ~r.crashed
                    /\ r.store = all_json_segments
                    /\ r.parsed = NoBuffer
                    /\ r.callback_arg = NoCall

\* C5's case: the last add was refused for its total, and brought a
\* sequence number the entry does not hold.
C5_Witness ==
    /\ last_call.op = "add" /\ ~crashed
    /\ stderr = <<"Error: Inconsistent total number of segments">>
    /\ SessionIndex(last_call.unique_id) # 0
    /\ LET info == all_json_segments[SessionIndex(last_call.unique_id)]
       IN /\ info.total_segments >= 1
          /\ info.received_segments < info.total_segments
          /\ \A j \in 1..info.received_segments :
                 info.segments[j].sequence_number # last_call.sequence_number

\* The add of (u, s, t) brings the count of u's session to its total.
Completes(u, s, t) ==
    IF SessionIndex(u) = 0 THEN t = 1
    ELSE LET info == all_json_segments[SessionIndex(u)]
         IN /\ info.total_segments = t
            /\ \A j \in 1..info.received_segments :
                   info.segments[j].sequence_number # s
            /\ info.received_segments + 1 = t

\* C6: a call of json_segments_add (well-formed fragment) hands a merged
\* buffer to the decoder exactly when it is the call that brings the session's
\* count to its total.
C6_MergeExactlyOnCompletion ==
    [][\A u \in Uids, s \in Seqs, t \in Totals, p \in Payloads :
           (/\ s >= 1 /\ t >= 1
            /\ json_segments_add(u, s, t, p)
            /\ ~crashed')
           => ((parsed' # NoBuffer) <=> Completes(u, s, t))]_vars

\* C7: the first fragment of an id the store does not know, with total 1, is
\* merged by that call: the callback (one is registered, the payload is JSON)
\* gets its parse and no session stays.
C7_SingleFragmentDelivered ==
    [][\A u \in Uids, s \in Seqs, p \in Payloads :
           (/\ s >= 1
            /\ SessionIndex(u) = 0
            /\ current_json_processing_function # NULL
            /\ cJSON_Parse(p) # NoJson
            /\ json_segments_add(u, s, 1, p)
            /\ ~crashed')
           => (/\ callback_arg' = <<cJSON_Parse(p)>>
               /\ FindSession(all_json_segments', u) = 0)]_vars

\* C8: the buffer a call hands to cJSON_Parse is the payloads of the
\* session's fragments (with the one just added) in ascending order of
\* sequence number, whatever the order they came in.
C8_MergedInSequenceOrder ==
    [][/\ \A u \in Uids :
              (parsed' # NoBuffer /\ json_segments_merge(u))
              => parsed' = <<AscendingConcat(
                               Fragments(all_json_segments[SessionIndex(u)]))>>
       /\ \A u \in Uids, s \in Seqs, t \in Totals, p \in Payloads :
              (parsed' # NoBuffer /\ json_segments_add(u, s, t, p))
              => parsed' = <<AscendingConcat(
                               Fragments(all_json_segments[SessionIndex(u)])
                                   \cup {JsonSegment(s, p)})>>]_vars

\* C8's case: the fragment of sequence number 1 came in after the fragment
\* of sequence number 2, and the buffer parsed starts with its payload.
C8_Witness ==
    /\ last_call.op = "add" /\ last_call.sequence_number = 1
    /\ parsed = << <<"x", "1">> >>
    /\ SessionIndex(last_call.unique_id) # 0
    /\ all_json_segments[SessionIndex(last_call.unique_id)].segments
           = <<JsonSegment(1, <<"x">>), JsonSegment(2, <<"1">>)>>

\* C9: after a call whose merged buffer did not parse, the callback was not
\* called and the session is gone.
C9_EvictedOnDecodeFailure ==
    stderr = <<"Fehler beim Parsen von JSON">>
        => (/\ callback_arg = NoCall
            /\ SessionIndex(last_call.unique_id) = 0)

\* C10: json_segments_merge for a complete session while no callback is
\* registered leaves every session in the array, with its total, count,
\* fragments and timestamp.
C10_MergeWithoutHandlerKeepsStore ==
    [][\A u \in Uids :
           (/\ json_segments_merge(u)
            /\ current_json_processing_function = NULL
            /\ SessionIndex(u) # 0
            /\ all_json_segments[SessionIndex(u)].received_segments
                   = all_json_segments[SessionIndex(u)].total_segments)
           => \A v \in Uids :
                  /\ (SessionIndex(v) = 0) <=> (FindSession(all_json_segments', v) = 0)
                  /\ SessionIndex(v) # 0 =>
                         LET old == all_json_segments[SessionIndex(v)]
                             new == all_json_segments'[FindSession(all_json_segments', v)]
                         IN /\ new.total_segments = old.total_segments
                            /\ new.received_segments = old.received_segments
                            /\ new.last_received_timestamp = old.last_received_timestamp
                            /\ Fragments(new) = Fragments(old)]_vars

\* ------------------------------------------- properties of the split

\* json_segments_split_string has been called.
SplitReturned == split_result # NotCalled

\* The payload budget of a fragment: max_length - overhead.
Budget == split_max_length - json_segments_overhead_size(split_uid, 0, 0)

\* ceil(L / B) for L >= 0 and B > 0: the least n with n * B >= L.
Ceil(L, B) == CHOOSE n \in 0..L : n * B >= L /\ \A m \in 0..(n - 1) : m * B < L

\* The payloads of the segments from the k-th on, one after the other.
RECURSIVE SlicesFrom(_, _)
SlicesFrom(segs, k) ==
    IF k > Len(segs) THEN <<>> ELSE segs[k].seg \o SlicesFrom(segs, k + 1)

\* C11: json_segments_split_string of a string of length L with
\* B = max_length - overhead > 0 returns ceil(L / B) segments; the k-th has
\* seq k, abs ceil(L / B), the uid given and a payload of at most B bytes;
\* the payloads in this order make the string; a string that is not empty
\* gets the array.
C11_SplitYieldsCeilFragments ==
    (SplitReturned /\ Budget > 0) =>
        LET segs == split_result.segments
            n == Ceil(Len(split_str), Budget)
        IN /\ Len(segs) = n
           /\ \A k \in 1..Len(segs) :
                  /\ segs[k].seq = k
                  /\ segs[k].abs = n
                  /\ segs[k].uid = split_uid
                  /\ Len(segs[k].seg) <= Budget
           /\ SlicesFrom(segs, 1) = split_str
           /\ Len(split_str) >= 1 => split_result.returned = "array"

\* C11's case: a string of three bytes split with a budget of two: two
\* segments, the last one shorter.
C11_Witness ==
    /\ split_result.returned = "array"
    /\ Len(split_str) = 3 /\ Budget = 2
    /\ Len(split_result.segments) = 2
    /\ Len(split_result.segments[2].seg) = 1

\* C12: json_segments_split_string of the empty string, with a max_length
\* that passes the overhead check, returns one segment: seq 1, abs 1, an
\* empty payload.
C12_EmptyStringYieldsOneFragment ==
    (SplitReturned /\ Budget > 0 /\ split_str = <<>>) =>
        /\ split_result.returned = "array"
        /\ split_result.segments
               = <<json_segments_create_single(split_uid, 1, 1, <<>>)>>

\* C13: every segment returned, printed (uid, seq, abs and seg as they are in
\* the segment), is at most max_length bytes long.
C13_FragmentFitsMaxLength ==
    SplitReturned =>
        \A k \in 1..Len(split_result.segments) :
            Len(cJSON_PrintUnformatted(split_result.segments[k])) <= split_max_length

\* C14: json_segments_split_string returns NULL, and no segment, for every
\* max_length at which the segment with the uid given and an empty payload,
\* printed, does not leave room for a payload byte.
C14_FailsWhenEmptyEnvelopeDoesNotFit ==
    (/\ SplitReturned
     /\ split_max_length
            - Len(cJSON_PrintUnformatted(
                      json_segments_create_single(split_uid, 0, 0, <<>>))) <= 0)
    => (split_result.returned = "NULL" /\ split_result.segments = <<>>)

\* ------------------------------------------- properties of the sweep

\* The entry is older than the timeout at time t.
Expired(info, t, timeout) == t - info.last_received_timestamp > timeout

\* The entries of a store that are not, in the order they have.
Kept(store, t, timeout) == SelectSeq(store, LAMBDA info : ~Expired(info, t, timeout))

\* The outcomes of json_segments_check_timeout(timeout) called now.
SweepNow(timeout) ==
    TimeoutOutcomes(all_json_segments, all_json_segments_ptr, 0, now, timeout, <<>>)

\* In a store where no entry was written past its buffer the sweep is exact:
\* it returns with the expired entries gone and the others as they were.
SweepExactWithinBuffers ==
    NoOverrunIn(all_json_segments) =>
        \A timeout \in Timeouts :
            \A r \in SweepNow(timeout) :
                /\ ~r.crashed
                /\ r.store = Kept(all_json_segments, now, timeout)

\* C15: json_segments_check_timeout(T) returns with the entries whose
\* now - last_received_timestamp > T gone and every other entry as it was,
\* in every store: whatever entries are expired, next to each other or last.
C15_SweepEvictsExactlyExpired ==
    \A timeout \in Timeouts :
        \A r \in SweepNow(timeout) :
            /\ ~r.crashed
            /\ r.store = Kept(all_json_segments, now, timeout)

\* C16: once json_segments_check_timeout has evicted the entry of an id, the
\* next json_segments_add for that id (a fragment of a message of two or
\* more, at that time or later) returns with a new entry for it:
\* received_segments 1, the total of that fragment, that fragment alone, the
\* time of that call; nothing is parsed or delivered.
C16_SweptSessionStartsAnew ==
    \A timeout \in Timeouts :
        \A r1 \in SweepNow(timeout) :
            ~r1.crashed =>
                \A i \in 1..Len(all_json_segments) :
                    LET u == all_json_segments[i].unique_id IN
                    FindSession(r1.store, u) = 0 =>
                        \A s \in Seqs \ {0}, t \in Totals \ {0, 1}, p \in Payloads,
                           later \in now..MaxTime :
                            \A r2 \in AddOutcomes(r1.store, r1.ptr, u, s, t, p, later,
                                                  current_json_processing_function) :
                                /\ ~r2.crashed
                                /\ FindSession(r2.store, u) # 0
                                /\ r2.store[FindSession(r2.store, u)]
                                       = JsonSegmentInfo(u, 1, t, <<JsonSegment(s, p)>>, later)
                                /\ r2.parsed = NoBuffer
                                /\ r2.callback_arg = NoCall

\* ------------------------------------------- properties of the admission

\* C17: json_segments_add of a fragment with total <= 0 or seq < 1 returns
\* with the store as it was: no entry made, no fragment added, no timestamp
\* changed, nothing parsed or delivered.
C17_InvalidFragmentRejected ==
    \A u \in Uids, s \in Seqs, t \in Totals, p \in Payloads :
        (t <= 0 \/ s < 1) =>
            \A r \in AddOutcomes(all_json_segments, all_json_segments_ptr, u, s, t, p,
                                 now, current_json_processing_function) :
                /\ ~r.crashed
                /\ r.store = all_json_segments
                /\ r.parsed = NoBuffer
                /\ r.callback_arg = NoCall

\* Every object with the four items, each a string, a number or missing,
\* and the NULL pointer.
AnyItems == {StringItem(<<"a">>), NumberItem(1), NoItem}
AnyObjects ==
    {Object(uid, seq, abs, seg) :
         uid \in AnyItems, seq \in AnyItems, abs \in AnyItems, seg \in AnyItems}
    \cup {NullObject}

\* An object that is no segment: the NULL pointer, or one of uid, seq, abs,
\* seg is missing or not of its type (uid and seg strings, seq and abs numbers).
NoSegment(json_obj) ==
    \/ json_obj = NullObject
    \/ json_obj.uid.type # "cJSON_String"
    \/ json_obj.seq.type # "cJSON_Number"
    \/ json_obj.abs.type # "cJSON_Number"
    \/ json_obj.seg.type # "cJSON_String"

\* C18: json_segments_parse_input of an object that is no segment has one
\* outcome: it returns with the store as it was, having printed a message,
\* and nothing parsed or delivered.
C18_MalformedEnvelopeRejected ==
    \A json_obj \in AnyObjects :
        NoSegment(json_obj) =>
            \A r \in ParseInputOutcomes(all_json_segments, all_json_segments_ptr,
                                        json_obj, now,
                                        current_json_processing_function) :
                /\ ~r.crashed
                /\ r.store = all_json_segments
                /\ r.ptr = all_json_segments_ptr
                /\ r.stderr # <<>>
                /\ r.parsed = NoBuffer
                /\ r.callback_arg = NoCall

\* C18's case: an entry waits for its last fragment, a callback is
\* registered, and the last call was a json_segments_parse_input that
\* printed "invalid data" and returned.
C18_Witness ==
    /\ last_call.op = "parse_input"
    /\ stderr = <<"JSON-Objekt enthaelt ungueltige Daten">>
    /\ current_json_processing_function # NULL
    /\ Len(all_json_segments) = 1
    /\ all_json_segments[1].received_segments + 1 = all_json_segments[1].total_segments

\* ------------------------------------------- properties of the delivery

\* C19: json_segments_merge for an id that has no entry, or whose entry's
\* received_segments is not its total_segments, has one outcome: it returns
\* with the store as it was, nothing parsed, no callback called.  And a
\* json_segments_add calls the callback only when it is the one that brings
\* an entry's received_segments to its total_segments.
C19_CallbackOnlyWhenComplete ==
    /\ \A u \in Uids :
           (\/ SessionIndex(u) = 0
            \/ all_json_segments[SessionIndex(u)].received_segments
                   # all_json_segments[SessionIndex(u)].total_segments)
           => \A r \in MergeOutcomes(all_json_segments, all_json_segments_ptr, u,
                                     current_json_processing_function) :
                  /\ ~r.crashed
                  /\ r.store = all_json_segments
                  /\ r.ptr = all_json_segments_ptr
                  /\ r.parsed = NoBuffer
                  /\ r.callback_arg = NoCall
    /\ \A u \in Uids, s \in Seqs, t \in Totals, p \in Payloads :
           \A r \in AddOutcomes(all_json_segments, all_json_segments_ptr, u, s, t, p,
                                now, current_json_processing_function) :
               (r.callback_arg # NoCall \/ r.parsed # NoBuffer) =>
                   /\ SessionIndex(u) # 0
                   /\ all_json_segments[SessionIndex(u)].received_segments + 1
                          = all_json_segments[SessionIndex(u)].total_segments

\* C19's case: json_segments_merge was called for an id whose entry misses
\* a fragment, a callback is registered: the entry is there, nothing was
\* parsed, no callback called.
C19_Witness ==
    /\ last_call.op = "merge"
    /\ current_json_processing_function # NULL
    /\ SessionIndex(last_call.unique_id) # 0
    /\ LET info == all_json_segments[SessionIndex(last_call.unique_id)]
       IN info.received_segments < info.total_segments
    /\ parsed = NoBuffer /\ callback_arg = NoCall

\* C20: json_segments_check_timeout parses nothing and calls no callback,
\* whatever the entries it evicts hold (some fragments, all of them, more).
C20_SweepDeliversNothing ==
    \A timeout \in Timeouts :
        \A r \in SweepNow(timeout) :
            r.parsed = NoBuffer /\ r.callback_arg = NoCall

\* C20's case: a callback is registered and json_segments_check_timeout has
\* just evicted the last entry of the store (the realloc to size 0 printed
\* its message); no callback was called.
C20_Witness ==
    /\ last_call.op = "check_timeout"
    /\ current_json_processing_function # NULL
    /\ stderr = <<"Memory allocation error!">>
    /\ all_json_segments = <<>>
    /\ callback_arg = NoCall

\* ------------------------------------------- properties of the lifetime

\* C21: with the clock going on and json_segments_check_timeout called again
\* and again, an entry that is in the array is not there for ever: once no
\* fragment comes in any more the id has no entry (merged and deleted, or
\* swept).
C21_SessionEventuallyRemoved ==
    \A u \in Uids : (SessionIndex(u) # 0) ~> (SessionIndex(u) = 0)

\* C21's case: the clock is at its end and the sweep has just evicted the
\* last entry of the store, which no call had merged.
C21_Witness ==
    /\ last_call.op = "check_timeout"
    /\ now = MaxTime
    /\ ~crashed
    /\ all_json_segments = <<>>
    /\ all_json_segments_ptr = "freed"
    /\ stderr = <<"Memory allocation error!">>

\* ------------------------------------------- properties of the frame

\* Outcome r of a call for unique_id leaves the entries of the other ids as
\* they are: each is in the store still, with its total, its fragments, its
\* count and its timestamp.
OthersKept(unique_id, r) ==
    \A i \in 1..Len(all_json_segments) :
        all_json_segments[i].unique_id # unique_id =>
            /\ ~r.crashed
            /\ \E j \in 1..Len(r.store) : r.store[j] = all_json_segments[i]

\* json_segments_add for unique_id, with every fragment and every outcome,
\* leaves the entries of the other ids as they are.
FrameOfAdd(unique_id) ==
    \A s \in PairSeqs, t \in PairTotals :
        \A r \in AddOutcomes(all_json_segments, all_json_segments_ptr,
                             unique_id, s, t, <<"1">>, now,
                             current_json_processing_function) :
            OthersKept(unique_id, r)

\* So does json_segments_merge for unique_id.
FrameOfMerge(unique_id) ==
    \A r \in MergeOutcomes(all_json_segments, all_json_segments_ptr, unique_id,
                           current_json_processing_function) :
        OthersKept(unique_id, r)

\* So does json_segments_delete_segments for unique_id.
FrameOfDelete(unique_id) ==
    \A r \in DeleteOutcomes(all_json_segments, all_json_segments_ptr, unique_id,
                            <<>>, NoBuffer, NoCall) :
        OthersKept(unique_id, r)

\* No two entries of the array have the same unique_id.
OneEntryPerId ==
    \A i, j \in 1..Len(all_json_segments) :
        i # j => all_json_segments[i].unique_id # all_json_segments[j].unique_id

\* C22: the array never holds two entries of one id, and
\* json_segments_add, json_segments_merge and json_segments_delete_segments
\* for an id, with or without entry, leave every entry of another id in the
\* array and as it was.
C22_OtherSessionsUndisturbed ==
    /\ OneEntryPerId
    /\ \A u \in PairIds : FrameOfAdd(u) /\ FrameOfMerge(u) /\ FrameOfDelete(u)

\* The same for the calls that stay within the buffer of the id's entry:
\* json_segments_add while the entry, if there is one, has a free slot,
\* json_segments_merge and json_segments_delete_segments while it was not
\* written past its last slot.
FrameWithinBuffers ==
    /\ OneEntryPerId
    /\ \A u \in PairIds :
           LET i == SessionIndex(u) IN
           /\ (\/ i = 0
               \/ all_json_segments[i].received_segments
                      < all_json_segments[i].total_segments)
              => FrameOfAdd(u)
           /\ (\/ i = 0
               \/ all_json_segments[i].received_segments
                      <= all_json_segments[i].total_segments)
              => FrameOfMerge(u) /\ FrameOfDelete(u)

====
